---- MODULE Spec2Model ----
(***************************************************************************)
(* DeathLogger agent (src/Agent/src/main.rs): the event loop of main, the  *)
(* two handlers handle_sv_change and handle_screenshot_created, the pairer *)
(* find_nearest_screenshot, the reader parse_latest_death_from_sv, the     *)
(* transport upload and the persisted State (load_state / save_state).     *)
(***************************************************************************)
EXTENDS Integers, Sequences, FiniteSets, Bags, TLC

\* ------------------------------------------------------------------ bounds

\* Records the game script adds to all deaths tables together in one behaviour.
MaxDeaths == 2
\* Watcher events waiting in the channel (the mpsc channel itself is unbounded).
MaxChan == 2
\* Stand-in for the queue capacity 50 of handle_screenshot_created (main.rs:678),
\* scaled so that full queues are enumerable.
QueueCap == 2
\* Stand-in for cfg.pair_window_secs (default 120, main.rs:55), in the model's
\* time unit.
PairWindow == 1

\* ------------------------------------------------------------ input domains

Sources == {"acc1", "acc2"}          \* SavedVariables files the glob finds
Players == {"p1", "p2"}
Realms  == {"r1"}
AtVals  == {1, 2}                    \* integer values of a record's `at`
TsVals  == {1, 3}                    \* screenshot modification times
Paths   == {"a.jpg", "b.jpg"}        \* screenshot files

None    == <<>>
Some(x) == <<x>>

\* An entry of the deaths table; `at` is None when the field is missing or is
\* not a number.
RawAts       == {None} \cup {Some(a) : a \in AtVals}
DeathRecords == [player : Players, realm : Realms, at : RawAts]
Shots        == [path : Paths, ts_epoch : TsVals]
SvEvents     == [kind : {"sv"}, path : Sources]
ShotEvents   == [kind : {"shot"}, path : Paths]
OtherEvents  == [kind : {"other"}, path : {"-"}]
Events       == SvEvents \cup ShotEvents \cup OtherEvents

VARIABLES
    last_uploaded,     \* State.last_uploaded : BTreeMap<String, i64>
    pending_screens,   \* State.pending_screens : VecDeque<PendingShot>
    state_file,        \* contents of state.json
    deaths,            \* per source file, the DeathLoggerDB.deaths table
    chan,              \* events sent by the watcher callback, not yet received
    pc,                \* "recv": main is at rx.recv_timeout; "send": at req.send().await
    inflight,          \* the handle_sv_change invocation suspended in upload
    sweep,             \* sources periodic_poll has still to visit
    poll_due,          \* last_poll.elapsed() > 10 s
    faults,            \* environment: fs::write may fail, the process may be killed
    ok_uploads,        \* history: successful transport calls of this run
    failed_uploads,    \* history: failed deliveries of this run, where kept
    committed,         \* history: the State before its latest mutation (with faults)
    last,              \* history: what the latest step did
    probe              \* a pure function's arguments and result, where one is tried

vars == <<last_uploaded, pending_screens, state_file, deaths, chan, pc,
          inflight, sweep, poll_due, faults, ok_uploads, failed_uploads,
          committed, last, probe>>

\* ------------------------------------------------------------ pure helpers

\* fn to_key (main.rs:342)
to_key(player, realm) == player \o "@" \o realm

\* state.last_uploaded.get(&key).copied().unwrap_or(0) (main.rs:698)
already(lu, key) == IF key \in DOMAIN lu THEN lu[key] ELSE 0

\* Mutant of nothing_new: there is no gate.
nothing_new_never(at, alr) == FALSE

\* Mutant of nothing_new: the gate lets an equal `at` through.
nothing_new_strict(at, alr) == at < alr

\* The gate `latest.at <= already` (main.rs:699)
nothing_new(at, alr) == at <= alr

\* Mutant of ledger_insert: the ledger is set past the record's `at`.
ledger_insert_past(lu, key, at) ==
    [k \in (DOMAIN lu) \cup {key} |-> IF k = key THEN at + 1 ELSE lu[k]]

\* Mutant of ledger_insert: the ledger is not advanced.
ledger_insert_lost(lu, key, at) == lu

\* state.last_uploaded.insert(key, at) (main.rs:722)
ledger_insert(lu, key, at) ==
    [k \in (DOMAIN lu) \cup {key} |-> IF k = key THEN at ELSE lu[k]]

\* (p.ts_epoch - death_ts).abs() (main.rs:736)
AbsDiff(a, b) == IF a >= b THEN a - b ELSE b - a

\* The loop of find_nearest_screenshot (main.rs:735-741), entries i..Len(q),
\* with the running best (an Option) and best_dt (Infinity stands for i64::MAX).
Infinity == 1000000

\* Mutant of closer: an entry at the same distance replaces the best so far.
closer_or_equal(dt, best_dt, window_secs) == dt <= best_dt /\ dt <= window_secs

\* `dt < best_dt && dt <= window_secs` (main.rs:737)
closer(dt, best_dt, window_secs) == dt < best_dt /\ dt <= window_secs

RECURSIVE nearest_from(_, _, _, _, _, _)
nearest_from(q, i, death_ts, window_secs, best, best_dt) ==
    IF i > Len(q) THEN best
    ELSE LET dt == AbsDiff(q[i].ts_epoch, death_ts)
         IN  IF closer(dt, best_dt, window_secs)
             THEN nearest_from(q, i + 1, death_ts, window_secs, Some(q[i]), dt)
             ELSE nearest_from(q, i + 1, death_ts, window_secs, best, best_dt)

\* fn find_nearest_screenshot (main.rs:732)
find_nearest_screenshot(q, death_ts, window_secs) ==
    nearest_from(q, 1, death_ts, window_secs, None, Infinity)

\* Mutant of newer: every entry met replaces the latest so far.
newer_always(i, max_i) == TRUE

\* `i > max_i` (main.rs:376)
newer(i, max_i) == i > max_i

\* The walk over the deaths table (main.rs:370-383): the entry at the greatest
\* integer key above 0, or None.
RECURSIVE latest_from(_, _, _, _)
latest_from(tbl, keys, max_i, latest) ==
    IF keys = {} THEN latest
    ELSE LET i == CHOOSE k \in keys : TRUE
         IN  IF newer(i, max_i)
             THEN latest_from(tbl, keys \ {i}, i, Some(tbl[i]))
             ELSE latest_from(tbl, keys \ {i}, max_i, latest)

\* The same walk in the order deaths_tbl.pairs() yields the keys: order is a
\* sequence of the table's keys, each once (main.rs:373-381).
RECURSIVE latest_in_order(_, _, _, _, _)
latest_in_order(tbl, order, n, max_i, latest) ==
    IF n > Len(order) THEN latest
    ELSE LET i == order[n]
         IN  IF newer(i, max_i)
             THEN latest_in_order(tbl, order, n + 1, i, Some(tbl[i]))
             ELSE latest_in_order(tbl, order, n + 1, max_i, latest)

\* fn parse_latest_death_from_sv (main.rs:347), on a file that evaluates
parse_latest_death_from_sv(tbl) == latest_from(tbl, DOMAIN tbl, 0, None)

\* state.pending_screens.iter().position(|x| x.path == path) (main.rs:724)
RECURSIVE position_from(_, _, _)
position_from(q, i, path) ==
    IF i > Len(q) THEN 0
    ELSE IF q[i].path = path THEN i ELSE position_from(q, i + 1, path)

\* VecDeque::remove(pos)
remove_at(q, pos) == [j \in 1..(Len(q) - 1) |-> IF j < pos THEN q[j] ELSE q[j + 1]]

\* main.rs:723-727: remove the matched screenshot from the queue
remove_matched(q, near) ==
    IF near = None THEN q
    ELSE LET pos == position_from(q, 1, near[1].path)
         IN  IF pos = 0 THEN q ELSE remove_at(q, pos)

\* main.rs:673-680: push_back, then pop_front while longer than the capacity
RECURSIVE trim(_)
trim(q) == IF Len(q) > QueueCap THEN trim(Tail(q)) ELSE q

\* Mutant of push_shot: nothing is evicted.
push_shot_untrimmed(q, shot) == Append(q, shot)

push_shot(q, shot) == trim(Append(q, shot))

\* serde_json::to_string_pretty(state) (main.rs:316): one member per ledger key,
\* the queue as an array of {path, ts_epoch} objects.
\* Mutant of serialize: the queue is written newest first.
serialize_reversed(lu, q) ==
    [last_uploaded   |-> {<<k, lu[k]>> : k \in DOMAIN lu},
     pending_screens |-> [i \in 1..Len(q) |->
                            <<q[Len(q) + 1 - i].path, q[Len(q) + 1 - i].ts_epoch>>]]

serialize(lu, q) ==
    [last_uploaded   |-> {<<k, lu[k]>> : k \in DOMAIN lu},
     pending_screens |-> [i \in 1..Len(q) |-> <<q[i].path, q[i].ts_epoch>>]]

\* serde_json::from_str (main.rs:309)
deserialize(f) ==
    [last_uploaded   |-> [k \in {m[1] : m \in f.last_uploaded} |->
                            (CHOOSE m \in f.last_uploaded : m[1] = k)[2]],
     pending_screens |-> [i \in 1..Len(f.pending_screens) |->
                            [path     |-> f.pending_screens[i][1],
                             ts_epoch |-> f.pending_screens[i][2]]]]

EmptyLedger == [k \in {} |-> 0]
\* State::default()
DefaultState == [last_uploaded |-> EmptyLedger, pending_screens |-> <<>>]

\* state.json: no file, a file that does not parse, or a serialized State.
AbsentFile  == [kind |-> "absent", text |-> None]
CorruptFile == [kind |-> "corrupt", text |-> None]
JsonFile(s) == [kind |-> "json", text |-> Some(s)]

\* Mutant of started: an Err of load_state ends main (load_state()?).
started_unless_err(f) == IF f.kind = "corrupt" THEN "stopped" ELSE "recv"

\* main.rs:613-621: unwrap_or_default takes the Err of load_state away, and
\* main goes on to its loop whatever state.json held.
started(f) == "recv"

\* load_state().unwrap_or_default() (main.rs:305-313, 613): no file gives the
\* default state, and so does a file that does not parse.
load_state(f) ==
    IF f.kind = "json" THEN deserialize(f.text[1]) ELSE DefaultState

\* What fs::write leaves in state.json (main.rs:314-318); the caller drops the
\* Result with .ok().  "written": the whole text; "failed": the file could not be
\* opened and keeps its content; "torn": it was truncated and the text did not
\* get there (a write error, or the process killed inside the write).
WriteOutcomes(f) == IF f THEN {"written", "failed", "torn"} ELSE {"written"}
save_state(lu, q, w, old) ==
    CASE w = "written" -> JsonFile(serialize(lu, q))
      [] w = "failed"  -> old
      [] w = "torn"    -> CorruptFile

\* Lua values as lua_to_json meets them: [t |-> "int" | "str" | "bool", v]
\* and [t |-> "tbl", pairs], pairs being the <<key, value>> pairs of the
\* table in the order t.pairs() yields them.

\* main.rs:423-427: the object key of a Lua key
key_string(k) ==
    CASE k.t = "str" -> k.v
      [] k.t = "int" -> ToString(k.v)
      [] OTHER       -> "key"

\* Mutant of sort_entries: the entries stay in the order pairs() gave them.
sort_entries_not(entries) == entries

\* entries.sort_by_key(|(i, _)| *i) (main.rs:413)
sort_entries(entries) == SortSeq(entries, LAMBDA a, b : a[1] < b[1])

\* fn lua_to_json (main.rs:386-435).  A table is an array when no key is
\* anything but an Integer and there is an entry (main.rs:412); otherwise an
\* object, a later insert of the same key string replacing the earlier.
RECURSIVE lua_to_json(_)
lua_to_json(v) ==
    IF v.t # "tbl" THEN [t |-> "scalar", v |-> v.v]
    ELSE LET ps       == v.pairs
             is_array == \A n \in 1..Len(ps) : ps[n][1].t = "int"
             entries  == [n \in 1..Len(ps) |-> <<ps[n][1].v, ps[n][2]>>]
         IN  IF is_array /\ Len(ps) > 0
             THEN LET sorted == sort_entries(entries)
                  IN  [t |-> "array",
                       items |-> [n \in 1..Len(sorted) |-> lua_to_json(sorted[n][2])]]
             ELSE LET strs    == {key_string(ps[n][1]) : n \in 1..Len(ps)}
                      last_of(s) == CHOOSE n \in 1..Len(ps) :
                                      /\ key_string(ps[n][1]) = s
                                      /\ \A m \in 1..Len(ps) :
                                            key_string(ps[m][1]) = s => m <= n
                  IN  [t |-> "object",
                       map |-> [s \in strs |-> lua_to_json(ps[last_of(s)][2])]]

\* main.rs:437-441: `at` as an integer, 0 when missing or not a number
at_of(raw) == IF raw = None THEN 0 ELSE raw[1]

\* The DeathPayload built from the latest entry (main.rs:437-483); the fields
\* passed through opaquely are left out.
death_payload(rec) ==
    [at |-> at_of(rec.at), player |-> rec.player, realm |-> rec.realm]

\* fn account_sv_paths (main.rs:516): the glob's matches, in path order
account_sv_paths == <<"acc1", "acc2">>

\* ----------------------------------------------------------------- state

\* main.rs:612-620: main enters its loop on a machine with no state.json and
\* the deaths tables tbl.  f: the disk may fail and the process may be killed;
\* k: the history of failed deliveries is kept.
Start(tbl, f, k) ==
    /\ state_file = AbsentFile
    /\ last_uploaded = load_state(AbsentFile).last_uploaded
    /\ pending_screens = load_state(AbsentFile).pending_screens
    /\ deaths = tbl
    /\ chan = <<>>
    /\ pc = "recv"
    /\ inflight = None
    /\ sweep = <<>>
    /\ poll_due = FALSE
    /\ faults = f
    /\ ok_uploads = EmptyBag
    /\ failed_uploads = [kept |-> k, calls |-> {}]
    /\ committed = None
    /\ last = "start"
    /\ probe = None

NoDeaths == [s \in Sources |-> <<>>]

\* No SavedVariables entry yet, a disk that works, a process left running.
Init == Start(NoDeaths, FALSE, FALSE)

\* ------------------------------------------------------- the two handlers

\* Mutant of Return: the State is written to state.json on every return.
Return_saving(out) ==
    /\ pc' = "recv"
    /\ inflight' = None
    /\ last' = out
    /\ state_file' = JsonFile([last_uploaded |-> {<<k, last_uploaded[k]>> : k \in DOMAIN last_uploaded},
                               pending_screens |-> [i \in 1..Len(pending_screens) |->
                                   <<pending_screens[i].path, pending_screens[i].ts_epoch>>]])
    /\ UNCHANGED <<last_uploaded, pending_screens, committed, ok_uploads>>

\* Mutant of Return: an Err of the reader ends the process.
Return_fatal(out) ==
    /\ pc' = IF out = "read_error" THEN "stopped" ELSE "recv"
    /\ inflight' = None
    /\ last' = out
    /\ UNCHANGED <<last_uploaded, pending_screens, state_file, committed, ok_uploads>>

\* handle_sv_change returning without a transport call (main.rs:687-702, 718)
Return(out) ==
    /\ pc' = "recv"
    /\ inflight' = None
    /\ last' = out
    /\ UNCHANGED <<last_uploaded, pending_screens, state_file, committed, ok_uploads>>

\* The State in memory
Memory == [last_uploaded |-> last_uploaded, pending_screens |-> pending_screens]

\* The history of the State before a mutation, kept where the disk can fail
BeforeMutation == IF faults THEN Some(Memory) ELSE committed

\* The history of failed deliveries, with one more
Failed(s, d) ==
    IF failed_uploads.kept
    THEN [failed_uploads EXCEPT !.calls = @ \cup
            {[src |-> s, key |-> to_key(d.player, d.realm), at |-> d.at]}]
    ELSE failed_uploads

\* fn handle_sv_change (main.rs:686-716), from its entry to its return or to
\* the await in upload.  Which of the first two returns is taken is the file
\* system's answer: the file is gone (main.rs:687), or it cannot be read or
\* evaluated (main.rs:691-694); otherwise it evaluates to the deaths table.
\* The fifth is fs::read of the paired screenshot failing (main.rs:498).
handle_sv_change(s) ==
    LET latest == parse_latest_death_from_sv(deaths[s])
        d      == death_payload(latest[1])
        key    == to_key(d.player, d.realm)
        near   == find_nearest_screenshot(pending_screens, d.at, PairWindow)
    IN  \/ /\ Return("missing")
           /\ UNCHANGED failed_uploads
        \/ /\ Return("read_error")
           /\ UNCHANGED failed_uploads
        \/ /\ latest = None
           /\ Return("no_record")
           /\ UNCHANGED failed_uploads
        \/ /\ latest # None
           /\ nothing_new(d.at, already(last_uploaded, key))
           /\ Return("skip")
           /\ UNCHANGED failed_uploads
        \/ /\ latest # None
           /\ ~nothing_new(d.at, already(last_uploaded, key))
           /\ near # None
           /\ Return("shot_unreadable")
           /\ failed_uploads' = Failed(s, d)
        \/ /\ latest # None
           /\ ~nothing_new(d.at, already(last_uploaded, key))
           /\ pc' = "send"
           /\ inflight' = Some([src |-> s, death |-> d, near |-> near])
           /\ last' = "sending"
           /\ UNCHANGED <<last_uploaded, pending_screens, state_file, committed,
                          ok_uploads, failed_uploads>>

\* fn handle_screenshot_created (main.rs:667-684); ts is the file's mtime, or
\* the current time when the metadata cannot be read.
handle_screenshot_created(p) ==
    \E ts \in TsVals, w \in WriteOutcomes(faults) :
        LET q == push_shot(pending_screens, [path |-> p, ts_epoch |-> ts])
        IN  /\ pending_screens' = q
            /\ state_file' = save_state(last_uploaded, q, w, state_file)
            /\ committed' = BeforeMutation
            /\ last' = IF Len(pending_screens) >= QueueCap
                       THEN "observe_full" ELSE "observe"
            /\ UNCHANGED <<last_uploaded, pc, inflight, ok_uploads, failed_uploads>>

\* An event the loop drops: not Create/Modify, neither DeathLogger.lua nor an
\* image file, or an image path that is no file any more (main.rs:626-643, 660)
Ignored ==
    /\ last' = "ignore"
    /\ UNCHANGED <<last_uploaded, pending_screens, state_file, committed, pc, inflight,
                   ok_uploads, failed_uploads>>

\* main.rs:625-643: the match on a received event
Dispatch(e) ==
    \/ e.kind = "sv" /\ handle_sv_change(e.path)
    \/ e.kind = "shot" /\ handle_screenshot_created(e.path)
    \/ e.kind = "shot" /\ Ignored
    \/ e.kind = "other" /\ Ignored

\* ------------------------------------------------------------ the loop

\* main.rs:593-597 and 623-644: the watcher sends an event (one of E) into the
\* empty channel and rx.recv_timeout returns it
RecvFresh(E) ==
    /\ pc = "recv" /\ sweep = <<>> /\ chan = <<>>
    /\ \E e \in E : Dispatch(e)
    /\ UNCHANGED <<deaths, chan, sweep, poll_due, faults, probe>>

\* Mutant of RecvEvent: an event is taken while an invocation is suspended.
RecvEvent_overlapping ==
    /\ sweep = <<>> /\ chan # <<>>
    /\ Dispatch(Head(chan))
    /\ chan' = Tail(chan)
    /\ UNCHANGED <<deaths, sweep, poll_due, faults, probe>>

\* main.rs:623-644: rx.recv_timeout returns the oldest event of the channel
RecvEvent ==
    /\ pc = "recv" /\ sweep = <<>> /\ chan # <<>>
    /\ Dispatch(Head(chan))
    /\ chan' = Tail(chan)
    /\ UNCHANGED <<deaths, sweep, poll_due, faults, probe>>

\* main.rs:645-653: rx.recv_timeout timed out (no event for 500 ms)
RecvTimeout ==
    /\ pc = "recv" /\ sweep = <<>> /\ chan = <<>>
    /\ \/ /\ poll_due
          /\ poll_due' = FALSE
          /\ sweep' = account_sv_paths
          /\ last' = "poll"
       \/ /\ ~poll_due
          /\ last' = "timeout"
          /\ UNCHANGED <<poll_due, sweep>>
    /\ UNCHANGED <<last_uploaded, pending_screens, state_file, committed, deaths, chan, pc,
                   inflight, faults, probe, ok_uploads, failed_uploads>>

\* Mutant of rest_of_sweep: an error of handle_sv_change ends the sweep.
rest_of_sweep_aborting(sw, out) ==
    IF out \in {"read_error", "shot_unreadable"} THEN <<>> ELSE Tail(sw)

\* main.rs:747-752: an Err of handle_sv_change is printed and the for loop
\* goes on with the next path, whatever the outcome out was.
rest_of_sweep(sw, out) == Tail(sw)

\* fn periodic_poll (main.rs:745-754): one turn of its for loop
PollStep ==
    /\ pc = "recv" /\ sweep # <<>>
    /\ handle_sv_change(Head(sweep))
    /\ sweep' = rest_of_sweep(sweep, last')
    /\ UNCHANGED <<deaths, chan, poll_due, faults, probe>>

\* A successful transport call, as the history keeps it
Upload(c) ==
    [key  |-> to_key(c.death.player, c.death.realm),
     at   |-> c.death.at,
     shot |-> IF c.near = None THEN None ELSE Some(c.near[1].path)]

\* main.rs:721-729: upload returned Ok
UploadOk(c) ==
    \E w \in WriteOutcomes(faults) :
        LET key == to_key(c.death.player, c.death.realm)
            lu  == ledger_insert(last_uploaded, key, c.death.at)
            q   == remove_matched(pending_screens, c.near)
        IN  /\ last_uploaded' = lu
            /\ pending_screens' = q
            /\ state_file' = save_state(lu, q, w, state_file)
            /\ ok_uploads' = ok_uploads (+) SetToBag({Upload(c)})
            /\ committed' = BeforeMutation
            /\ last' = "sent"
            /\ UNCHANGED failed_uploads

\* Mutant of UploadErr: the paired screenshot is dropped although upload failed.
UploadErr_drops(c) ==
    /\ last' = "send_failed"
    /\ failed_uploads' = Failed(c.src, c.death)
    /\ pending_screens' = remove_matched(pending_screens, c.near)
    /\ UNCHANGED <<last_uploaded, state_file, committed, ok_uploads>>

\* Mutant of UploadErr: the ledger is advanced although upload failed.
UploadErr_marks(c) ==
    /\ last' = "send_failed"
    /\ failed_uploads' = Failed(c.src, c.death)
    /\ last_uploaded' = ledger_insert(last_uploaded,
                            to_key(c.death.player, c.death.realm), c.death.at)
    /\ UNCHANGED <<pending_screens, state_file, committed, ok_uploads>>

\* main.rs:716-719: upload returned Err (the request failed, main.rs:508, or
\* the status was no success, main.rs:509-512)
UploadErr(c) ==
    /\ last' = "send_failed"
    /\ failed_uploads' = Failed(c.src, c.death)
    /\ UNCHANGED <<last_uploaded, pending_screens, state_file, committed, ok_uploads>>

\* main.rs:508-514 and 716-729: the request of the suspended invocation ends
SendDone ==
    /\ pc = "send"
    /\ \/ UploadOk(inflight[1])
       \/ UploadErr(inflight[1])
    /\ pc' = "recv"
    /\ inflight' = None
    /\ UNCHANGED <<deaths, chan, sweep, poll_due, faults, probe>>

\* ------------------------------------------------------- the environment

\* The watcher callback sends an event (main.rs:593-597), at any time
WatcherEmit ==
    /\ Len(chan) < MaxChan
    /\ \E e \in Events : chan' = Append(chan, e)
    /\ last' = "env"
    /\ UNCHANGED <<last_uploaded, pending_screens, state_file, committed, deaths, pc,
                   inflight, sweep, poll_due, faults, probe, ok_uploads, failed_uploads>>

RECURSIVE SumLen(_, _)
SumLen(f, S) ==
    IF S = {} THEN 0
    ELSE LET s == CHOOSE x \in S : TRUE IN Len(f[s]) + SumLen(f, S \ {s})

\* The game rewrites a SavedVariables file with one more entry in deaths
GameWrites ==
    /\ SumLen(deaths, Sources) < MaxDeaths
    /\ \E s \in Sources, r \in DeathRecords :
          deaths' = [deaths EXCEPT ![s] = Append(@, r)]
    /\ last' = "env"
    /\ UNCHANGED <<last_uploaded, pending_screens, state_file, committed, chan, pc,
                   inflight, sweep, poll_due, faults, probe, ok_uploads, failed_uploads>>

\* More than 10 s have passed since last_poll (main.rs:647)
Tick ==
    /\ ~poll_due
    /\ poll_due' = TRUE
    /\ last' = "env"
    /\ UNCHANGED <<last_uploaded, pending_screens, state_file, committed, deaths, chan, pc,
                   inflight, sweep, faults, probe, ok_uploads, failed_uploads>>

\* The process is killed and started again: main loads state.json
\* (main.rs:613), with a new channel and last_poll = now (main.rs:591, 620).
Restart ==
    /\ faults
    /\ last_uploaded' = load_state(state_file).last_uploaded
    /\ pending_screens' = load_state(state_file).pending_screens
    /\ chan' = <<>>
    /\ pc' = started(state_file)
    /\ inflight' = None
    /\ sweep' = <<>>
    /\ poll_due' = FALSE
    /\ ok_uploads' = EmptyBag
    /\ failed_uploads' = [failed_uploads EXCEPT !.calls = {}]
    /\ committed' = None
    /\ last' = "restart"
    /\ UNCHANGED <<state_file, deaths, faults, probe>>

\* The delivery pipeline: every event is received as soon as it is sent.
Next ==
    \/ RecvFresh(Events)
    \/ RecvTimeout
    \/ PollStep
    \/ SendDone
    \/ GameWrites
    \/ Tick

Spec == Init /\ [][Next]_vars

\* The pipeline with no screenshot taken, keeping the history of failed
\* deliveries.
InitRetry == Start(NoDeaths, FALSE, TRUE)
NextRetry ==
    \/ RecvFresh(SvEvents \cup OtherEvents)
    \/ RecvTimeout
    \/ PollStep
    \/ SendDone
    \/ GameWrites
    \/ Tick
SpecRetry == InitRetry /\ [][NextRetry]_vars

\* Both accounts hold one entry in deaths, of different characters.
OneDeathEach ==
    [s \in Sources |->
        IF s = "acc1"
        THEN << [player |-> "p1", realm |-> "r1", at |-> Some(1)] >>
        ELSE << [player |-> "p2", realm |-> "r1", at |-> Some(2)] >>]

\* The loop behind its channel: the watcher thread sends at any time, the loop
\* receives one event per turn, sweeps only after a receive that timed out.
InitLoop == Start(OneDeathEach, FALSE, FALSE)
NextLoop ==
    \/ WatcherEmit
    \/ RecvEvent
    \/ RecvTimeout
    \/ PollStep
    \/ SendDone
    \/ Tick
SpecLoop == InitLoop /\ [][NextLoop]_vars

\* The loop never stops taking its next step, every request ends, and time
\* passes; nothing is assumed of the watcher.
FairLoop ==
    /\ SpecLoop
    /\ WF_vars(RecvEvent)
    /\ WF_vars(RecvTimeout)
    /\ WF_vars(PollStep)
    /\ WF_vars(SendDone)
    /\ WF_vars(Tick)

\* One account holds one entry in deaths.
OneDeath ==
    [s \in Sources |->
        IF s = "acc1"
        THEN << [player |-> "p1", realm |-> "r1", at |-> Some(1)] >>
        ELSE << >>]

\* The process on a disk that can fail, killed and started again at any time.
InitCrash == Start(OneDeath, TRUE, FALSE)
NextCrash ==
    \/ RecvFresh(Events)
    \/ SendDone
    \/ Restart
SpecCrash == InitCrash /\ [][NextCrash]_vars

\* find_nearest_screenshot on its own: queues of up to MaxQueueLen entries
\* (duplicates, ties and any order included), targets and windows around them.
MaxQueueLen == 3
PairerTs      == {100, 250, 270, 400}
PairerTargets == {100, 260, 325}
PairerWindows == {-1, 0, 10, 50, 120, 150}
PairerShots   == [path : Paths, ts_epoch : PairerTs]
Queues        == UNION {[1..n -> PairerShots] : n \in 0..MaxQueueLen}

InitPairer ==
    \E q \in Queues :
        /\ last_uploaded = EmptyLedger
        /\ pending_screens = q
        /\ state_file = JsonFile(serialize(EmptyLedger, q))
        /\ deaths = NoDeaths
        /\ chan = <<>>
        /\ pc = "recv"
        /\ inflight = None
        /\ sweep = <<>>
        /\ poll_due = FALSE
        /\ faults = FALSE
        /\ ok_uploads = EmptyBag
        /\ failed_uploads = [kept |-> FALSE, calls |-> {}]
        /\ committed = None
        /\ last = "start"
        /\ probe = None

\* main.rs:705: find_nearest_screenshot(&state.pending_screens, at, window)
Pair ==
    /\ probe = None
    /\ \E t \in PairerTargets, w \in PairerWindows :
          probe' = Some([death_ts |-> t, window_secs |-> w,
                         near |-> find_nearest_screenshot(pending_screens, t, w)])
    /\ last' = "pair"
    /\ UNCHANGED <<last_uploaded, pending_screens, state_file, deaths, chan, pc,
                   inflight, sweep, poll_due, faults, ok_uploads,
                   failed_uploads, committed>>

NextPairer == Pair
SpecPairer == InitPairer /\ [][NextPairer]_vars

\* A pure function on its own: everything but probe is as after a start.
Idle ==
    /\ last_uploaded = EmptyLedger
    /\ pending_screens = <<>>
    /\ state_file = AbsentFile
    /\ deaths = NoDeaths
    /\ chan = <<>>
    /\ pc = "recv"
    /\ inflight = None
    /\ sweep = <<>>
    /\ poll_due = FALSE
    /\ faults = FALSE
    /\ ok_uploads = EmptyBag
    /\ failed_uploads = [kept |-> FALSE, calls |-> {}]
    /\ committed = None
    /\ last = "start"

StaysIdle ==
    UNCHANGED <<last_uploaded, pending_screens, state_file, deaths, chan, pc,
                inflight, sweep, poll_due, faults, ok_uploads, failed_uploads,
                committed>>

\* The walk for the latest entry on its own: deaths tables with positive
\* integer keys up to MaxKey, gaps allowed, and every order in which pairs()
\* can yield the keys.
MaxKey == 4
Perms(S) ==
    {f \in [1..Cardinality(S) -> S] :
        \A i, j \in 1..Cardinality(S) : i # j => f[i] # f[j]}
ReaderRecords ==
    {[player |-> "p1", realm |-> "r1", at |-> Some(a)] : a \in AtVals}
ReaderTables == UNION {[K -> ReaderRecords] : K \in SUBSET (1..MaxKey)}

InitReader ==
    /\ Idle
    /\ \E tbl \in ReaderTables : \E order \in Perms(DOMAIN tbl) :
          probe = Some([tbl |-> tbl, order |-> order, latest |-> None])

\* main.rs:370-383 on the drawn table, in the drawn order
Walk ==
    /\ probe[1].latest = None
    /\ probe' = Some([probe[1] EXCEPT !.latest =
                   Some(latest_in_order(probe[1].tbl, probe[1].order, 1, 0, None))])
    /\ last' = "walk"
    /\ StaysIdle

NextReader == Walk
SpecReader == InitReader /\ [][NextReader]_vars

\* lua_to_json on its own: tables of up to MaxPairs pairs, in every order of
\* their pairs, with keys that are integers (negative, zero, positive, with a
\* gap), strings (one of them the decimal form of an integer key) or of
\* another type, and values that are a number or an empty table.
MaxPairs == 3
LuaKeys ==
    {[t |-> "int", v |-> i] : i \in {-1, 0, 1, 3}}
    \cup {[t |-> "str", v |-> s] : s \in {"a", "1"}}
    \cup {[t |-> "bool", v |-> TRUE]}
LuaLeaves == {[t |-> "int", v |-> 7], [t |-> "tbl", pairs |-> <<>>]}
LuaPairLists ==
    UNION {{ps \in [1..n -> LuaKeys \X LuaLeaves] :
              \A i, j \in 1..n : i # j => ps[i][1] # ps[j][1]} : n \in 0..MaxPairs}

InitConverter ==
    /\ Idle
    /\ \E ps \in LuaPairLists :
          probe = Some([value |-> [t |-> "tbl", pairs |-> ps], json |-> None])

\* main.rs:386: lua_to_json(v) on the drawn table
Convert ==
    /\ probe[1].json = None
    /\ probe' = Some([probe[1] EXCEPT !.json = Some(lua_to_json(probe[1].value))])
    /\ last' = "convert"
    /\ StaysIdle

NextConverter == Convert
SpecConverter == InitConverter /\ [][NextConverter]_vars

\* save_state and load_state on their own: every State with a ledger over the
\* IdentityKeys (zero and negative values included) and a queue of up to
\* MaxSaved entries (duplicates included), written and read back.
MaxSaved == 3
SavedKeys    == {to_key(p, r) : p \in Players, r \in Realms}
SavedAts     == {-1, 0, 1, 2}
SavedLedgers == UNION {[K -> SavedAts] : K \in SUBSET SavedKeys}
SavedQueues  == UNION {[1..n -> Shots] : n \in 0..MaxSaved}

InitSaved ==
    /\ \E lu \in SavedLedgers, q \in SavedQueues :
          /\ last_uploaded = lu
          /\ pending_screens = q
    /\ state_file = AbsentFile
    /\ deaths = NoDeaths
    /\ chan = <<>>
    /\ pc = "recv"
    /\ inflight = None
    /\ sweep = <<>>
    /\ poll_due = FALSE
    /\ faults = FALSE
    /\ ok_uploads = EmptyBag
    /\ failed_uploads = [kept |-> FALSE, calls |-> {}]
    /\ committed = None
    /\ last = "start"
    /\ probe = None

\* save_state(state) returning Ok (main.rs:314-318)
SaveState ==
    /\ last = "start"
    /\ state_file' = save_state(last_uploaded, pending_screens, "written", state_file)
    /\ last' = "saved"
    /\ UNCHANGED <<last_uploaded, pending_screens, deaths, chan, pc, inflight,
                   sweep, poll_due, faults, ok_uploads, failed_uploads,
                   committed, probe>>

\* load_state() on the file just written (main.rs:305-313)
LoadState ==
    /\ last = "saved"
    /\ probe' = Some(load_state(state_file))
    /\ last' = "loaded"
    /\ UNCHANGED <<last_uploaded, pending_screens, state_file, deaths, chan, pc,
                   inflight, sweep, poll_due, faults, ok_uploads,
                   failed_uploads, committed>>

NextSaved == SaveState \/ LoadState
SpecSaved == InitSaved /\ [][NextSaved]_vars

\* ------------------------------------------------------ reading the state

\* What handle_sv_change reads from source s: the latest entry, its payload
\* and its IdentityKey
Latest(s)  == parse_latest_death_from_sv(deaths[s])
Payload(s) == death_payload(Latest(s)[1])
KeyOf(d)   == to_key(d.player, d.realm)

\* A step that runs handle_sv_change on source s, from a watcher event or from
\* the sweep
Invokes(s) == pc = "recv" /\ handle_sv_change(s)

\* The record (key, at) was the subject of a successful transport call
Delivered(key, at) ==
    \E u \in BagToSet(ok_uploads) : u.key = key /\ u.at = at

DeliveryState == <<last_uploaded, pending_screens>>

\* ------------------------------------------------------------------ claims

\* C1: idempotent delivery.  No record (IdentityKey, at) is the subject of two
\* successful transport calls of one run, and once a source's latest record
\* has been delivered, an invocation of handle on that source makes no
\* transport call and leaves the ledger, the queue and state.json as they are.
C1_Idempotent ==
    /\ [](\A u \in BagToSet(ok_uploads) :
            /\ CopiesIn(u, ok_uploads) = 1
            /\ \A v \in BagToSet(ok_uploads) :
                  (v.key = u.key /\ v.at = u.at) => v = u)
    /\ [][\A s \in Sources :
            (/\ Invokes(s)
             /\ Latest(s) # None
             /\ Delivered(KeyOf(Payload(s)), Payload(s).at))
            => /\ pc' = "recv"
               /\ last' \in {"missing", "read_error", "skip"}
               /\ UNCHANGED <<DeliveryState, state_file, ok_uploads>>]_vars

\* A handle invocation has just found nothing new, and the latest record of
\* every source that has one was delivered earlier in the run.
C1_Witness ==
    /\ last = "skip"
    /\ \E s \in Sources : Latest(s) # None
    /\ \A s \in Sources :
          Latest(s) # None => Delivered(KeyOf(Payload(s)), Payload(s).at)

\* C2: the de-duplication gate.  An invocation of handle that has read the
\* record of a source attempts delivery (calls upload) exactly when the
\* record's `at` is strictly greater than the ledger value of its IdentityKey
\* (0 when the key has no entry, main.rs:698); otherwise it returns success
\* with no transport call and no change of state.
C2_Gate ==
    [][\A s \in Sources :
        (/\ Invokes(s)
         /\ last' \notin {"missing", "read_error"}
         /\ Latest(s) # None)
        => IF Payload(s).at > already(last_uploaded, KeyOf(Payload(s)))
           THEN last' \in {"sending", "shot_unreadable"}
           ELSE /\ last' = "skip"
                /\ pc' = "recv"
                /\ UNCHANGED <<DeliveryState, state_file, ok_uploads>>]_vars

\* A handle invocation has just skipped a record whose `at` lies strictly
\* below the ledger entry of its IdentityKey (a stale rewrite).
C2_Witness ==
    /\ last = "skip"
    /\ \E s \in Sources :
          /\ Latest(s) # None
          /\ KeyOf(Payload(s)) \in DOMAIN last_uploaded
          /\ Payload(s).at < last_uploaded[KeyOf(Payload(s))]
    /\ \A s \in Sources :
          Latest(s) # None =>
            Payload(s).at <= already(last_uploaded, KeyOf(Payload(s)))

\* C3: a failed delivery changes nothing.  When upload fails (the request
\* fails, the status is no success, or the paired screenshot cannot be read)
\* the ledger, the queue and state.json are as before the invocation, and the
\* screenshot selected for pairing is still at its place in the queue.
C3_FailureKeepsState ==
    [][(last' \in {"send_failed", "shot_unreadable"})
        => /\ UNCHANGED <<DeliveryState, state_file>>
           /\ (pc = "send" /\ inflight[1].near # None)
                => \E i \in 1..Len(pending_screens) :
                      /\ pending_screens[i] = inflight[1].near[1]
                      /\ pending_screens'[i] = inflight[1].near[1]]_vars

\* A transport call has just failed for a record that has a screenshot
\* within the pairing window in the queue.
C3_Witness ==
    /\ last = "send_failed"
    /\ \E c \in failed_uploads.calls \cup {[src |-> s, key |-> KeyOf(Payload(s)),
                at |-> Payload(s).at] : s \in {x \in Sources : Latest(x) # None}} :
          /\ c.at > already(last_uploaded, c.key)
          /\ find_nearest_screenshot(pending_screens, c.at, PairWindow) # None

\* Source s was read: the invocation got past the file system
Reads(s) == Invokes(s) /\ last' \notin {"missing", "read_error"} /\ Latest(s) # None

\* An earlier invocation on source s failed in delivery for the record that
\* is still its latest
FailedBefore(s) ==
    [src |-> s, key |-> KeyOf(Payload(s)), at |-> Payload(s).at]
        \in failed_uploads.calls

Attempted == last' \in {"sending", "shot_unreadable"}

Superseded(key, at) ==
    \E u \in BagToSet(ok_uploads) : u.key = key /\ u.at >= at

Quiescent ==
    /\ pc = "recv" /\ sweep = <<>> /\ chan = <<>>
    /\ \A s \in Sources :
          Latest(s) = None
          \/ nothing_new(Payload(s).at, already(last_uploaded, KeyOf(Payload(s))))

\* Sources as the game writes them: every entry has a numeric `at`, the `at`
\* values grow along each table, and no IdentityKey is in two files.
WellFormedSources ==
    /\ \A s \in Sources : \A i \in DOMAIN deaths[s] : deaths[s][i].at # None
    /\ \A s \in Sources : \A i, j \in DOMAIN deaths[s] :
          i < j => at_of(deaths[s][i].at) < at_of(deaths[s][j].at)
    /\ \A s, r \in Sources : \A i \in DOMAIN deaths[s] : \A j \in DOMAIN deaths[r] :
          s # r => KeyOf(death_payload(deaths[s][i])) # KeyOf(death_payload(deaths[r][j]))

\* C5, as claimed: every record the game adds to a deaths table is uploaded
\* exactly once; with well-formed sources, when the pipeline has nothing left
\* to deliver, every entry of every table was the subject of a successful
\* transport call.
C5_EveryEventOnce ==
    (WellFormedSources /\ Quiescent)
    => \A s \in Sources : \A i \in DOMAIN deaths[s] :
          Delivered(KeyOf(death_payload(deaths[s][i])), death_payload(deaths[s][i]).at)

\* C8, as claimed: a successful delivery sets the ledger entry to the
\* record's `at`, takes exactly the entry the Pairer selected out of the queue
\* (the others keep their order) and writes the new state to state.json.
C8_SuccessUpdate ==
    [][(pc = "send" /\ last' = "sent")
        => LET c == inflight[1]
           IN  /\ last_uploaded'[KeyOf(c.death)] = c.death.at
               /\ c.near = None => pending_screens' = pending_screens
               /\ c.near # None =>
                     \E i \in 1..Len(pending_screens) :
                        /\ pending_screens[i] = c.near[1]
                        /\ pending_screens' = remove_at(pending_screens, i)
               /\ state_file' = JsonFile(serialize(last_uploaded', pending_screens'))]_vars

\* ------------------------------------------------------------- the Pairer

\* The distance of queue entry i from the target of the tried call
Dist(q, i, t) == AbsDiff(q[i].ts_epoch, t)
InWindow(q, t, w) == {i \in 1..Len(q) : Dist(q, i, t) <= w}

Observes(p) == pc = "recv" /\ handle_screenshot_created(p)

\* C7: the bounded queue.  In every reachable state, whatever state.json was
\* loaded at a start, the queue holds at most QueueCap entries; an observe on
\* a queue of QueueCap entries takes the head away, leaves the others in
\* their order and puts the new entry at the tail.
C7_QueueBounded ==
    /\ [](Len(pending_screens) <= QueueCap)
    /\ [][\A p \in Paths :
            (Observes(p) /\ Len(pending_screens) = QueueCap)
            => /\ Len(pending_screens') = QueueCap
               /\ pending_screens'[QueueCap].path = p
               /\ \A i \in 1..(QueueCap - 1) :
                     pending_screens'[i] = pending_screens[i + 1]]_vars

\* An observe has just evicted the head of a full queue, and state.json holds
\* the queue it left.
C7_Witness ==
    /\ last = "observe_full"
    /\ Len(pending_screens) = QueueCap
    /\ committed # None
    /\ Len(committed[1].pending_screens) = QueueCap
    /\ load_state(state_file).pending_screens = pending_screens

\* --------------------------------------------------------------- the sweep

\* C9, as claimed: once the interval has elapsed, a sweep eventually starts,
\* whatever the watcher sends.
C9_SweepStarts == poll_due ~> (last = "poll")

\* ------------------------------------------------------------- durability

\* C10, as claimed: what a start would load from state.json is the State in
\* memory, or the State before the latest mutation (the one a kill may have
\* caught in flight); a crash loses no more than that.
C10_CrashKeepsCommitted ==
    LET loaded == load_state(state_file)
    IN  \/ loaded = Memory
        \/ committed # None /\ loaded = committed[1]

\* --------------------------------------------------------------- the reader

\* The greatest key of a table that has one
MaxKeyOf(tbl) == CHOOSE k \in DOMAIN tbl : \A j \in DOMAIN tbl : j <= k

\* C11: selecting the latest entry.  For every deaths table with positive
\* integer keys, gaps allowed, and every order in which its pairs are met,
\* the walk returns the entry at the greatest key, and no record exactly when
\* the table has no entry.
C11_LatestIsMaxKey ==
    (probe # None /\ probe[1].latest # None)
    => LET tbl == probe[1].tbl
           r   == probe[1].latest[1]
       IN  /\ r = None <=> DOMAIN tbl = {}
           /\ DOMAIN tbl # {} => r = Some(tbl[MaxKeyOf(tbl)])

\* Keys {1, 3, 2} met in that order, different entries at each, and the walk
\* returned the entry at key 3.
C11_Witness ==
    /\ probe # None
    /\ probe[1].latest # None
    /\ probe[1].order = <<1, 3, 2>>
    /\ probe[1].tbl[3] # probe[1].tbl[2]
    /\ probe[1].latest[1] = Some(probe[1].tbl[3])

\* --------------------------------------------------------------- round trip

\* C12: round trip.  For every State, what load_state reads from the file
\* save_state wrote has the same IdentityKey-to-at mapping and the same
\* queue: the same entries in the same order.
C12_RoundTrip ==
    last = "loaded"
    => /\ DOMAIN probe[1].last_uploaded = DOMAIN last_uploaded
       /\ \A k \in DOMAIN last_uploaded :
             probe[1].last_uploaded[k] = last_uploaded[k]
       /\ Len(probe[1].pending_screens) = Len(pending_screens)
       /\ \A i \in 1..Len(pending_screens) :
             /\ probe[1].pending_screens[i].path = pending_screens[i].path
             /\ probe[1].pending_screens[i].ts_epoch = pending_screens[i].ts_epoch

\* A State with two ledger entries, one of them negative, and three queue
\* entries, two of the same path, was written and read back.
C12_Witness ==
    /\ last = "loaded"
    /\ Cardinality(DOMAIN last_uploaded) = 2
    /\ \E k \in DOMAIN last_uploaded : last_uploaded[k] < 0
    /\ Len(pending_screens) = 3
    /\ pending_screens[1].path = pending_screens[3].path
    /\ pending_screens[1] # pending_screens[2]
    /\ probe[1].pending_screens = pending_screens

\* ------------------------------------------------------- errors in the loop

\* The outcomes of handle_sv_change that are an Err
Failing == {"read_error", "shot_unreadable", "send_failed"}

\* C13: a per-event error aborts neither the sweep nor the loop.  A handle
\* that fails during a sweep (on reading, or in delivery) leaves every
\* remaining source in the sweep and the loop at its next turn; a sweep only
\* ever moves on by invoking handle on its next source, and it comes to its
\* end; and again and again the loop receives an event, unless none waits.
C13_ErrorsDoNotAbort ==
    /\ [][(last' \in Failing)
            => /\ pc' = "recv"
               /\ chan' = chan \/ (chan # <<>> /\ chan' = Tail(chan))
               /\ sweep' = sweep \/ (sweep # <<>> /\ sweep' = Tail(sweep))]_vars
    /\ [][(sweep # <<>> /\ sweep' # sweep)
            => (sweep' = Tail(sweep) /\ Invokes(Head(sweep)))]_vars
    /\ (sweep # <<>>) ~> (sweep = <<>>)
    /\ []<><<RecvEvent \/ chan = <<>>>>_vars

\* The first source of a sweep has just failed to be read, the second is
\* still to be handled, and an event waits in the channel.
C13_Witness ==
    /\ last = "read_error"
    /\ sweep = <<"acc2">>
    /\ chan # <<>>
    /\ pc = "recv"

\* ------------------------------------------------------------- the startup

\* C14: a state.json that cannot be read or parsed does not stop the start.
\* The process starts with the empty ledger and the empty queue and is at the
\* receive of its loop, with nothing in flight.
C14_CorruptStartsEmpty ==
    [][(last' = "restart" /\ state_file.kind = "corrupt")
        => /\ last_uploaded' = EmptyLedger
           /\ pending_screens' = <<>>
           /\ pc' = "recv"
           /\ inflight' = None
           /\ chan' = <<>>]_vars

\* The process has just been started on a state.json that does not parse: it
\* is in its loop with the empty state.
C14_Witness ==
    /\ last = "restart"
    /\ state_file.kind = "corrupt"
    /\ last_uploaded = EmptyLedger
    /\ pending_screens = <<>>
    /\ pc = "recv"

\* ------------------------------------------------------------ no-op handles

\* C15: handle is a no-op on a source that is gone or holds no record.  An
\* invocation that finds the path missing, or whose reader reports no record,
\* returns Ok without a transport call and leaves the ledger, the queue and
\* state.json as they were; and on a source without a record no invocation
\* ends any other way than without a call.
C15_NoOpHandle ==
    [][\A s \in Sources :
        /\ (Invokes(s) /\ last' \in {"missing", "no_record"})
           => /\ last' \notin Failing
              /\ pc' = "recv"
              /\ inflight' = None
              /\ UNCHANGED <<DeliveryState, state_file, ok_uploads, failed_uploads>>
        /\ (Invokes(s) /\ Latest(s) = None)
           => /\ last' \in {"missing", "read_error", "no_record"}
              /\ pc' = "recv"
              /\ UNCHANGED <<DeliveryState, state_file, ok_uploads>>]_vars

\* The reader has just reported no record on a source while the other
\* source holds a record not yet delivered and a screenshot is queued.
C15_Witness ==
    /\ last = "no_record"
    /\ pc = "recv"
    /\ pending_screens # <<>>
    /\ \E s \in Sources : Latest(s) = None
    /\ \E s \in Sources :
          /\ Latest(s) # None
          /\ ~nothing_new(Payload(s).at, already(last_uploaded, KeyOf(Payload(s))))

\* -------------------------------------------------------------- read errors

\* C16: a read error is transient.  An invocation whose reader fails returns
\* the Err without a transport call; the ledger, the queue, state.json and
\* the source are as before, the loop is at its next turn, and so whatever
\* a later invocation on the source does, it does from the state the failed
\* one found.
C16_ReadErrorTransient ==
    [][\A s \in Sources :
        (Invokes(s) /\ last' = "read_error")
        => /\ last' \in Failing
           /\ pc' = "recv"
           /\ inflight' = None
           /\ UNCHANGED <<DeliveryState, state_file, ok_uploads, deaths, faults>>]_vars

\* A read of a source has just failed while it holds a record that is not
\* delivered yet, with a screenshot in the queue.
C16_Witness ==
    /\ last = "read_error"
    /\ pc = "recv"
    /\ pending_screens # <<>>
    /\ ok_uploads = EmptyBag
    /\ Latest("acc1") # None
    /\ ~nothing_new(Payload("acc1").at, already(last_uploaded, KeyOf(Payload("acc1"))))

\* ------------------------------------------------------- one entry per file

\* C17, as claimed: repeated notifications for one path add no further
\* entry; no two entries of the queue have the same path.
C17_OneEntryPerPath ==
    \A i, j \in 1..Len(pending_screens) :
        pending_screens[i].path = pending_screens[j].path => i = j

\* ------------------------------------------------------ one handler at a time

\* C18: no two handler invocations overlap, and events are handled in the
\* order of their notification.  While an invocation is suspended in its
\* transport call nothing is received, observed, handled or swept: the
\* channel only grows, the ledger and the queue stand still until the
\* invocation ends, and the entry it paired is the one the Pairer finds in
\* the queue as it is.  The channel loses events only at its head, to the
\* handler of that event, and gains them only at its tail.
C18_NoOverlapInOrder ==
    /\ [](pc = "send" =>
            /\ inflight # None
            /\ inflight[1].near = find_nearest_screenshot(
                   pending_screens, inflight[1].death.at, PairWindow))
    /\ [][pc = "send"
            => /\ last' \in {"env", "sent", "send_failed"}
               /\ sweep' = sweep
               /\ chan' = chan \/ \E e \in Events : chan' = Append(chan, e)
               /\ pc' = "send" => UNCHANGED <<DeliveryState, state_file>>]_vars
    /\ [][chan' # chan
            => \/ \E e \in Events : chan' = Append(chan, e) /\ last' = "env"
               \/ /\ chan # <<>>
                  /\ chan' = Tail(chan)
                  /\ pc = "recv" /\ sweep = <<>>
                  /\ Dispatch(Head(chan))]_vars

\* An invocation is suspended in its transport call with a paired screenshot
\* while two events wait in the channel, a screenshot first.
C18_Witness ==
    /\ pc = "send"
    /\ inflight[1].near # None
    /\ Len(chan) = 2
    /\ chan[1].kind = "shot"
    /\ chan[2].kind = "sv"

\* ---------------------------------------------------------- the converter

\* The pairs of the converted table and what came out of it
Converted  == probe # None /\ probe[1].json # None
PairsIn    == probe[1].value.pairs
JsonOut    == probe[1].json[1]
AllInteger == \A n \in 1..Len(PairsIn) : PairsIn[n][1].t = "int"
AllPositiveInteger ==
    \A n \in 1..Len(PairsIn) : PairsIn[n][1].t = "int" /\ PairsIn[n][1].v > 0

\* The output is the array of the table's values in ascending key order
AscendingArray ==
    /\ JsonOut.t = "array"
    /\ Len(JsonOut.items) = Len(PairsIn)
    /\ \A n \in 1..Len(PairsIn) :
          LET rank == Cardinality({m \in 1..Len(PairsIn) :
                                     PairsIn[m][1].v <= PairsIn[n][1].v})
          IN  JsonOut.items[rank] = lua_to_json(PairsIn[n][2])

\* The output is the object of the table's pairs, integer keys in decimal
KeyedObject ==
    /\ JsonOut.t = "object"
    /\ DOMAIN JsonOut.map = {key_string(PairsIn[n][1]) : n \in 1..Len(PairsIn)}
    /\ \A n \in 1..Len(PairsIn) :
          PairsIn[n][1].t = "int" => ToString(PairsIn[n][1].v) \in DOMAIN JsonOut.map

C20_LedgerMonotone ==
    [][/\ \A k \in DOMAIN last_uploaded :
             /\ k \in DOMAIN last_uploaded'
             /\ last_uploaded'[k] >= last_uploaded[k]
       /\ last_uploaded' # last_uploaded
             => \E k \in DOMAIN last_uploaded' :
                   /\ last_uploaded'[k] > already(last_uploaded, k)
                   /\ \A j \in DOMAIN last_uploaded' \ {k} :
                         /\ j \in DOMAIN last_uploaded
                         /\ last_uploaded'[j] = last_uploaded[j]]_vars

\* A ledger entry has just been replaced by a greater value while the source
\* that was read before holds the older record as its latest.
C20_Witness ==
    /\ last = "sent"
    /\ \E k \in DOMAIN last_uploaded :
          /\ last_uploaded[k] = 2
          /\ Delivered(k, 1)
          /\ Delivered(k, 2)
    /\ \E s \in Sources : Latest(s) # None /\ Payload(s).at = 1

\* ------------------------------------------- the ledger holds deliveries only

\* C21: the ledger records only delivered events.  From the empty state, in
\* every reachable state each ledger entry is the IdentityKey and `at` of a
\* transport call of this run that returned success; and no step but the
\* return of a successful call (no observe, failed delivery, read error,
\* no-op handle, sweep start or event dropped) changes the ledger.
C21_LedgerHoldsDeliveries ==
    /\ [](\A k \in DOMAIN last_uploaded : Delivered(k, last_uploaded[k]))
    /\ [][last_uploaded' # last_uploaded
            => /\ pc = "send"
               /\ last' = "sent"
               /\ \E u \in BagToSet(ok_uploads') :
                     /\ u.key = KeyOf(inflight[1].death)
                     /\ u.at = inflight[1].death.at
               /\ last_uploaded'[KeyOf(inflight[1].death)] = inflight[1].death.at]_vars

\* A delivery has just failed for a character that has no ledger entry,
\* while the ledger holds the delivered record of the other character and a
\* screenshot is queued.
C21_Witness ==
    /\ last = "send_failed"
    /\ pending_screens # <<>>
    /\ Cardinality(DOMAIN last_uploaded) = 1
    /\ \E s \in Sources :
          /\ Latest(s) # None
          /\ KeyOf(Payload(s)) \notin DOMAIN last_uploaded
          /\ Payload(s).at > 0

\* ------------------------------------------- a screenshot that cannot be read

\* C22, as claimed: an unreadable screenshot cannot block an event.  Every
\* handle invocation that reads a source whose latest record is novel (its
\* `at` is above the ledger entry of its IdentityKey) hands a request for that
\* record to the transport, so that an endpoint that accepts every request
\* delivers it; this also when the file of the paired queue entry has been
\* deleted or cannot be read.
C22_UnreadableCannotBlock ==
    [][\A s \in Sources :
        (/\ Reads(s)
         /\ Payload(s).at > already(last_uploaded, KeyOf(Payload(s))))
        => /\ last' = "sending"
           /\ pc' = "send"
           /\ inflight' # None
           /\ inflight'[1].death = Payload(s)]_vars

\* ----------------------------------------------------- the gate and a first event

\* C23, as claimed: a first event is never lost to the de-duplication gate.
\* Every handle invocation that reads a source whose latest record has an
\* IdentityKey with no ledger entry attempts delivery of that record, whatever
\* its `at` is (0 for a missing or non-numeric field included).
C23_FirstNeverGated ==
    [][\A s \in Sources :
        (/\ Reads(s)
         /\ KeyOf(Payload(s)) \notin DOMAIN last_uploaded)
        => Attempted]_vars

\* ------------------------------------------- one delivery per screenshot

\* C24, as claimed: a screenshot is attached to at most one delivered event.
\* Every path names one file, created once and signalled any number of times;
\* no path is the screenshot of two successful transport calls.
C24_AttachedOnce ==
    \A u \in BagToSet(ok_uploads) :
        u.shot # None
        => /\ CopiesIn(u, ok_uploads) = 1
           /\ \A v \in BagToSet(ok_uploads) : v.shot = u.shot => v = u

====
